---------------------------- MODULE Spec2Model ----------------------------
(***************************************************************************)
(* Model of internal/workerpool: Pool.New and Pool.Run.                    *)
(*                                                                         *)
(* Run starts p.workers worker goroutines, a feeder goroutine and a closer *)
(* goroutine, then collects from the results channel until it is closed.   *)
(* jobs is an unbuffered channel (a send and a receive are one rendezvous  *)
(* step); results is a buffered channel of capacity len(inputs).  A Go     *)
(* select with several ready cases picks any of them; a select with a      *)
(* default case takes the default only when no other case is ready.        *)
(*                                                                         *)
(* Every input carries its position in the input slice as a tag (pos), so  *)
(* that properties about "the same input" can be stated; the code itself   *)
(* moves only the values.                                                  *)
(***************************************************************************)
EXTENDS Integers, Sequences, FiniteSets

\* ---- bounds of the model ----
MaxN == 3            \* longest input slice
MaxWorkers == 2      \* largest worker count passed to New

\* The input slices Run is called with.  Run never inspects a value, so
\* pairwise distinct values of every length, and one slice holding the same
\* value at two positions, stand for all.
Distinct(k) == [i \in 1..k |-> i]
Repeated == << 1, 1 >>
InputSlices == { Distinct(k) : k \in 0..MaxN } \cup { Repeated }

\* worker counts passed to New: negative, zero and positive
WorkerCounts == (0 - 1)..MaxWorkers

\* goroutine slots for workers (one spare, so that an over-spawning loop shows)
WorkerIds == 1..(MaxWorkers + 1)

Positions == 1..MaxN

VARIABLES
    requested,    \* the argument of New
    workers,      \* p.workers
    inputs,       \* the inputs slice of Run
    ctxDone,      \* ctx.Done() is closed
    mpc,          \* Run's own position: "call","spawn","feeder","closer","collect","returned"
    spawned,      \* loop variable i of the worker start-up loop
    wpc,          \* per worker: "none","range","check","call","send","done"
    winput,       \* per worker: position of the input it holds (0: none)
    wout,         \* per worker: the value fn returned (0: none)
    fpc,          \* feeder: "none","loop","done"
    fi,           \* feeder: position of the next input to send
    jobsClosed,   \* close(jobs) has run
    cpc,          \* closer: "none","wait","done"
    wg,           \* sync.WaitGroup counter
    results,      \* buffered channel results: queued outputs
    resultsClosed,\* close(results) has run
    out,          \* the slice Run builds and returns
    invoked,      \* history: per position, how many times fn was called on it
    handed,       \* history: per position, how many times a worker received it from jobs
    completed,    \* history: positions whose fn invocation has returned
    startedAtCancel,   \* history: number of fn invocations started when ctx was cancelled (-1: not cancelled)
    collectedAtCancel, \* history: len(out) when ctx was cancelled (-1: not cancelled)
    inFlightAtCancel   \* history: positions whose fn invocation was running when ctx was cancelled

\* ---- internal/checker: state of one Check call ----
VARIABLES
    kpc,           \* position of the Check call ("idle": no call is modelled)
    tType,         \* target.Type, a string as a sequence of characters
    tTimeout,      \* target.Timeout (timeout_ms), a 64-bit int as four 16-bit limbs
    tPort,         \* target.Port
    tURL,          \* target.URL: "malformed", "http" or "https" (its scheme)
    parentDone,    \* the caller's ctx is cancelled
    deadlinePassed,\* the deadline of checkCtx has passed
    timeout,       \* the local timeout of Check (a time.Duration, four limbs)
    now,           \* the wall clock
    start,         \* start := time.Now() of the branch
    result,        \* the Result being built
    resp,          \* the *http.Response of checkHTTP, or the tls.ConnectionState of checkTCP
    netOp,         \* the network operation the call is blocked on ("none": not blocked)
    netStarted,    \* history: the network operations the call has started, in order
    conns          \* the connections the call holds open

checkVars == << kpc, tType, tTimeout, tPort, tURL, parentDone, deadlinePassed,
                timeout, now, start, result, resp, netOp, netStarted, conns >>

\* ---- cmd/hello-cli: state of the fan-out in main ----
VARIABLES
    repeat,        \* *repeat, validated to 1..1000
    hpc,           \* main: "idle","spawn","feed","collect","print","done"
    hi,            \* the loop variable i of the loop main is in
    hwpc,          \* per worker: "none","range","work","send","done"
    hwidx,         \* per worker: the idx it received
    hwmsg,         \* per worker: the message it built
    hjobsClosed,   \* close(jobs) has run
    hresults,      \* buffered channel results
    ordered,       \* orderedMessages
    printed,       \* the lines printed so far
    generated,     \* the counter cli_greetings_generated
    slotWrites,    \* history: per slot of orderedMessages, how often it was written
    processed      \* history: per idx, how many workers received it

cliVars == << repeat, hpc, hi, hwpc, hwidx, hwmsg, hjobsClosed, hresults, ordered,
              printed, generated, slotWrites, processed >>

\* ---- internal/metrics: state of concurrent Inc calls on one Counters ----
VARIABLES
    incs,          \* the number of goroutines calling Inc
    cname,         \* the counter name they pass, a sequence of characters
    values,        \* c.values: the set of keys present and their counts
    muWriter,      \* c.mu: the goroutine holding the write lock (0: none)
    muReaders,     \* c.mu: the number of read locks held
    gpc,           \* per goroutine: "none","start","locked","loaded","stored","done"
    gtmp,          \* per goroutine: the value read by +=
    tpc,           \* the caller: "idle","wait","rlocked","read","done"
    got            \* what Get returned

cntVars == << incs, cname, values, muWriter, muReaders, gpc, gtmp, tpc, got >>

\* everything that is not state of Pool.Run
nonPool == << checkVars, cliVars, cntVars >>

vars == << requested, workers, inputs, ctxDone, mpc, spawned, wpc, winput, wout,
           fpc, fi, jobsClosed, cpc, wg, results, resultsClosed, out,
           invoked, handed, completed, startedAtCancel, collectedAtCancel,
           inFlightAtCancel, nonPool >>

poolVars == << requested, workers, inputs >>
hist == << invoked, handed, completed >>
snap == << startedAtCancel, collectedAtCancel, inFlightAtCancel >>

N == Len(inputs)

\* the task function of the tests: n * 2
Fn(x) == x * 2

\* variant of New: the clamp is missing
NewNoClamp(w) == w

\* New: a pool with at least one worker
New(w) == IF w < 1 THEN 1 ELSE w

\* the workers that are inside fn
Running == { w \in WorkerIds : wpc[w] = "call" }

NumStarted == Cardinality({ p \in Positions : invoked[p] > 0 })

\* the zero value of Result
ZeroResult == [Type |-> << >>, Target |-> "", Status |-> "", Detail |-> << >>,
               Latency |-> 0, TLS |-> "nil"]

\* no response or connection state is held yet
NoResponse == [StatusCode |-> 0, TLS |-> "nil", PeerCertificates |-> 0]

\* no Check call is modelled
CheckIdle ==
    /\ kpc = "idle"
    /\ tType = << >>
    /\ tTimeout = << 0, 0, 0, 0 >>
    /\ tPort = 0
    /\ tURL = "http"
    /\ parentDone = FALSE
    /\ deadlinePassed = FALSE
    /\ timeout = << 0, 0, 0, 0 >>
    /\ now = 0
    /\ start = 0
    /\ result = ZeroResult
    /\ resp = NoResponse
    /\ netOp = "none"
    /\ netStarted = << >>
    /\ conns = {}

\* ---- bounds of the hello-cli and Counters models ----
MaxRepeat == 5       \* largest *repeat
MaxIncs == 3         \* largest number of concurrent Inc calls

\* workerCount is capped: if workerCount > 4 { workerCount = 4 }
MaxCliWorkers == 4

CliWorkerIds == 1..MaxCliWorkers
Slots == 1..MaxRepeat

\* main of hello-cli is not run
CliIdle ==
    /\ repeat = 1
    /\ hpc = "idle"
    /\ hi = 0
    /\ hwpc = [w \in CliWorkerIds |-> "none"]
    /\ hwidx = [w \in CliWorkerIds |-> 0]
    /\ hwmsg = [w \in CliWorkerIds |-> << >>]
    /\ hjobsClosed = FALSE
    /\ hresults = << >>
    /\ ordered = << >>
    /\ printed = << >>
    /\ generated = 0
    /\ slotWrites = [i \in Slots |-> 0]
    /\ processed = [i \in Slots |-> 0]

IncIds == 1..MaxIncs

\* no Counters call is modelled
CntIdle ==
    /\ incs = 0
    /\ cname = << >>
    /\ values = << >>
    /\ muWriter = 0
    /\ muReaders = 0
    /\ gpc = [g \in IncIds |-> "none"]
    /\ gtmp = [g \in IncIds |-> 0]
    /\ tpc = "idle"
    /\ got = 0

NonPoolIdle == CheckIdle /\ CliIdle /\ CntIdle

Init ==
    /\ requested \in WorkerCounts
    /\ workers = New(requested)
    /\ inputs \in InputSlices
    /\ ctxDone \in BOOLEAN
    /\ mpc = "call"
    /\ spawned = 0
    /\ wpc = [w \in WorkerIds |-> "none"]
    /\ winput = [w \in WorkerIds |-> 0]
    /\ wout = [w \in WorkerIds |-> 0]
    /\ fpc = "none"
    /\ fi = 1
    /\ jobsClosed = FALSE
    /\ cpc = "none"
    /\ wg = 0
    /\ results = << >>
    /\ resultsClosed = FALSE
    /\ out = << >>
    /\ invoked = [p \in Positions |-> 0]
    /\ handed = [p \in Positions |-> 0]
    /\ completed = {}
    /\ startedAtCancel = IF ctxDone THEN 0 ELSE 0 - 1
    /\ collectedAtCancel = IF ctxDone THEN 0 ELSE 0 - 1
    /\ inFlightAtCancel = {}
    /\ NonPoolIdle

\* ---- the cancellation scope ----

\* ctx is cancelled (explicitly or by its deadline) at any moment of the call
Cancel ==
    /\ ~ctxDone
    /\ mpc # "returned"
    /\ ctxDone' = TRUE
    /\ startedAtCancel' = NumStarted
    /\ collectedAtCancel' = Len(out)
    /\ inFlightAtCancel' = { winput[w] : w \in Running }
    /\ UNCHANGED << nonPool, poolVars, mpc, spawned, wpc, winput, wout, fpc, fi, jobsClosed,
                    cpc, wg, results, resultsClosed, out, hist >>

\* ---- Run, the calling goroutine ----

\* if len(inputs) == 0 { return nil }
RunEmpty ==
    /\ mpc = "call"
    /\ Len(inputs) = 0
    /\ mpc' = "returned"
    /\ out' = << >>
    /\ UNCHANGED << nonPool, poolVars, ctxDone, spawned, wpc, winput, wout, fpc, fi, jobsClosed,
                    cpc, wg, results, resultsClosed, hist, snap >>

\* variant of RunStart: the early return for empty inputs is missing
RunStartNoGuard ==
    /\ mpc = "call"
    /\ mpc' = "spawn"
    /\ spawned' = 0
    /\ UNCHANGED << nonPool, poolVars, ctxDone, wpc, winput, wout, fpc, fi, jobsClosed,
                    cpc, wg, results, resultsClosed, out, hist, snap >>

\* len(inputs) > 0: make the channels and enter the start-up loop
RunStart ==
    /\ mpc = "call"
    /\ Len(inputs) # 0
    /\ mpc' = "spawn"
    /\ spawned' = 0
    /\ UNCHANGED << nonPool, poolVars, ctxDone, wpc, winput, wout, fpc, fi, jobsClosed,
                    cpc, wg, results, resultsClosed, out, hist, snap >>

\* variant of the loop condition: off by one (i <= p.workers)
MoreWorkersOffByOne(i) == i <= workers

\* the loop condition i < p.workers
MoreWorkers(i) == i < workers

\* one iteration of the start-up loop: wg.Add(1); go worker
SpawnWorker ==
    /\ mpc = "spawn"
    /\ MoreWorkers(spawned)
    /\ wg' = wg + 1
    /\ wpc' = [wpc EXCEPT ![spawned + 1] = "range"]
    /\ spawned' = spawned + 1
    /\ UNCHANGED << nonPool, poolVars, ctxDone, mpc, winput, wout, fpc, fi, jobsClosed,
                    cpc, results, resultsClosed, out, hist, snap >>

\* the loop is over: go feeder
SpawnFeeder ==
    /\ mpc = "spawn"
    /\ ~MoreWorkers(spawned)
    /\ fpc' = "loop"
    /\ fi' = 1
    /\ mpc' = "closer"
    /\ UNCHANGED << nonPool, poolVars, ctxDone, spawned, wpc, winput, wout, jobsClosed,
                    cpc, wg, results, resultsClosed, out, hist, snap >>

\* go closer; then Run makes out and starts ranging over results
SpawnCloser ==
    /\ mpc = "closer"
    /\ cpc' = "wait"
    /\ mpc' = "collect"
    /\ out' = << >>
    /\ UNCHANGED << nonPool, poolVars, ctxDone, spawned, wpc, winput, wout, fpc, fi, jobsClosed,
                    wg, results, resultsClosed, hist, snap >>

\* for result := range results { out = append(out, result) }
Collect ==
    /\ mpc = "collect"
    /\ results # << >>
    /\ out' = Append(out, Head(results))
    /\ results' = Tail(results)
    /\ UNCHANGED << nonPool, poolVars, ctxDone, mpc, spawned, wpc, winput, wout, fpc, fi,
                    jobsClosed, cpc, wg, resultsClosed, hist, snap >>

\* variant of Return: Run returns as soon as results is empty
ReturnEarly ==
    /\ mpc = "collect"
    /\ results = << >>
    /\ mpc' = "returned"
    /\ UNCHANGED << nonPool, poolVars, ctxDone, spawned, wpc, winput, wout, fpc, fi, jobsClosed,
                    cpc, wg, results, resultsClosed, out, hist, snap >>

\* the range ends when results is closed and drained: return out
Return ==
    /\ mpc = "collect"
    /\ results = << >>
    /\ resultsClosed
    /\ mpc' = "returned"
    /\ UNCHANGED << nonPool, poolVars, ctxDone, spawned, wpc, winput, wout, fpc, fi, jobsClosed,
                    cpc, wg, results, resultsClosed, out, hist, snap >>

\* ---- the feeder goroutine ----

\* variant of Handoff: the feeder does not move on to the next input
HandoffResend(w) ==
    /\ fpc = "loop"
    /\ fi <= N
    /\ wpc[w] = "range"
    /\ ~jobsClosed
    /\ winput' = [winput EXCEPT ![w] = fi]
    /\ wpc' = [wpc EXCEPT ![w] = "check"]
    /\ handed' = [handed EXCEPT ![fi] = @ + 1]
    /\ UNCHANGED << nonPool, poolVars, ctxDone, mpc, spawned, wout, fpc, fi, jobsClosed, cpc, wg,
                    results, resultsClosed, out, invoked, completed, snap >>

\* select case jobs <- input, taken with worker w receiving in its range loop.
\* The case is ready whenever a worker waits, whether or not ctx is done.
Handoff(w) ==
    /\ fpc = "loop"
    /\ fi <= N
    /\ wpc[w] = "range"
    /\ ~jobsClosed
    /\ winput' = [winput EXCEPT ![w] = fi]
    /\ wpc' = [wpc EXCEPT ![w] = "check"]
    /\ handed' = [handed EXCEPT ![fi] = @ + 1]
    /\ fi' = fi + 1
    /\ UNCHANGED << nonPool, poolVars, ctxDone, mpc, spawned, wout, fpc, jobsClosed, cpc, wg,
                    results, resultsClosed, out, invoked, completed, snap >>

\* variant of FeederCancel: break leaves the select only, and the loop goes
\* on with the next input
FeederCancelBreak ==
    /\ fpc = "loop"
    /\ fi <= N
    /\ ctxDone
    /\ fi' = fi + 1
    /\ UNCHANGED << nonPool, poolVars, ctxDone, mpc, spawned, wpc, winput, wout, fpc,
                    jobsClosed, cpc, wg, results, resultsClosed, out, hist, snap >>

\* variant of FeederCancel: the send has no ctx.Done() case, the feeder stays
\* blocked on jobs <- input
FeederNoCancel ==
    /\ fpc = "loop"
    /\ fi <= N
    /\ ctxDone
    /\ UNCHANGED vars

\* select case <-ctx.Done(): return, and the deferred close(jobs) runs
FeederCancel ==
    /\ fpc = "loop"
    /\ fi <= N
    /\ ctxDone
    /\ fpc' = "done"
    /\ jobsClosed' = TRUE
    /\ UNCHANGED << nonPool, poolVars, ctxDone, mpc, spawned, wpc, winput, wout, fi, cpc, wg,
                    results, resultsClosed, out, hist, snap >>

\* variant of FeederClose: the feeder ends without closing jobs
FeederCloseMissing ==
    /\ fpc = "loop"
    /\ fi > N
    /\ fpc' = "done"
    /\ UNCHANGED << nonPool, poolVars, ctxDone, mpc, spawned, wpc, winput, wout, fi, jobsClosed,
                    cpc, wg, results, resultsClosed, out, hist, snap >>

\* the loop ran out of inputs: the deferred close(jobs) runs
FeederClose ==
    /\ fpc = "loop"
    /\ fi > N
    /\ fpc' = "done"
    /\ jobsClosed' = TRUE
    /\ UNCHANGED << nonPool, poolVars, ctxDone, mpc, spawned, wpc, winput, wout, fi, cpc, wg,
                    results, resultsClosed, out, hist, snap >>

\* ---- a worker goroutine ----

\* range jobs ends on the closed channel: the deferred wg.Done() runs
WorkerExit(w) ==
    /\ wpc[w] = "range"
    /\ jobsClosed
    /\ wpc' = [wpc EXCEPT ![w] = "done"]
    /\ wg' = wg - 1
    /\ UNCHANGED << nonPool, poolVars, ctxDone, mpc, spawned, winput, wout, fpc, fi, jobsClosed,
                    cpc, results, resultsClosed, out, hist, snap >>

\* variant of WorkerCheck: the worker calls fn without looking at ctx
WorkerCheckNoCtx(w) ==
    /\ wpc[w] = "check"
    /\ wpc' = [wpc EXCEPT ![w] = "call"]
    /\ invoked' = [invoked EXCEPT ![winput[w]] = @ + 1]
    /\ UNCHANGED << nonPool, poolVars, ctxDone, mpc, spawned, winput, wout, fpc, fi, jobsClosed,
                    cpc, wg, results, resultsClosed, out, handed, completed, snap >>

\* select { case <-ctx.Done(): return; default: } and then out := fn(ctx, input)
\* begins.  The call follows the select with no shared access in between, so
\* the two are one step.
WorkerCheck(w) ==
    /\ wpc[w] = "check"
    /\ IF ctxDone
         THEN /\ wpc' = [wpc EXCEPT ![w] = "done"]
              /\ winput' = [winput EXCEPT ![w] = 0]
              /\ wg' = wg - 1
              /\ UNCHANGED invoked
         ELSE /\ wpc' = [wpc EXCEPT ![w] = "call"]
              /\ invoked' = [invoked EXCEPT ![winput[w]] = @ + 1]
              /\ UNCHANGED << wg, winput >>
    /\ UNCHANGED << nonPool, poolVars, ctxDone, mpc, spawned, wout, fpc, fi, jobsClosed,
                    cpc, results, resultsClosed, out, handed, completed, snap >>

\* fn(ctx, input) returns its output
FnReturn(w) ==
    /\ wpc[w] = "call"
    /\ wout' = [wout EXCEPT ![w] = Fn(inputs[winput[w]])]
    /\ wpc' = [wpc EXCEPT ![w] = "send"]
    /\ completed' = completed \cup {winput[w]}
    /\ UNCHANGED << nonPool, poolVars, ctxDone, mpc, spawned, winput, fpc, fi, jobsClosed,
                    cpc, wg, results, resultsClosed, out, invoked, handed, snap >>

\* variant of WorkerSend: the worker keeps its output and sends it again
WorkerSendKeeps(w) ==
    /\ wpc[w] = "send"
    /\ Len(results) < N
    /\ ~resultsClosed
    /\ results' = Append(results, [pos |-> winput[w], val |-> wout[w]])
    /\ UNCHANGED << nonPool, poolVars, ctxDone, mpc, spawned, wpc, winput, wout, fpc, fi,
                    jobsClosed, cpc, wg, resultsClosed, out, hist, snap >>

\* select case results <- out: ready while the buffer has room
WorkerSend(w) ==
    /\ wpc[w] = "send"
    /\ Len(results) < N
    /\ ~resultsClosed
    /\ results' = Append(results, [pos |-> winput[w], val |-> wout[w]])
    /\ wpc' = [wpc EXCEPT ![w] = "range"]
    /\ winput' = [winput EXCEPT ![w] = 0]
    /\ wout' = [wout EXCEPT ![w] = 0]
    /\ UNCHANGED << nonPool, poolVars, ctxDone, mpc, spawned, fpc, fi, jobsClosed,
                    cpc, wg, resultsClosed, out, hist, snap >>

\* select case <-ctx.Done(): return, dropping out; the deferred wg.Done() runs
WorkerDrop(w) ==
    /\ wpc[w] = "send"
    /\ ctxDone
    /\ wpc' = [wpc EXCEPT ![w] = "done"]
    /\ winput' = [winput EXCEPT ![w] = 0]
    /\ wout' = [wout EXCEPT ![w] = 0]
    /\ wg' = wg - 1
    /\ UNCHANGED << nonPool, poolVars, ctxDone, mpc, spawned, fpc, fi, jobsClosed,
                    cpc, results, resultsClosed, out, hist, snap >>

\* ---- the closer goroutine ----

\* variant of CloserClose: results is closed without waiting for the workers
CloserCloseNoWait ==
    /\ cpc = "wait"
    /\ resultsClosed' = TRUE
    /\ cpc' = "done"
    /\ UNCHANGED << nonPool, poolVars, ctxDone, mpc, spawned, wpc, winput, wout, fpc, fi,
                    jobsClosed, wg, results, out, hist, snap >>

\* wg.Wait() returns when the counter is zero; close(results)
CloserClose ==
    /\ cpc = "wait"
    /\ wg = 0
    /\ resultsClosed' = TRUE
    /\ cpc' = "done"
    /\ UNCHANGED << nonPool, poolVars, ctxDone, mpc, spawned, wpc, winput, wout, fpc, fi,
                    jobsClosed, wg, results, out, hist, snap >>

Next ==
    \/ Cancel
    \/ RunEmpty
    \/ RunStart
    \/ SpawnWorker
    \/ SpawnFeeder
    \/ SpawnCloser
    \/ Collect
    \/ Return
    \/ \E w \in WorkerIds : Handoff(w)
    \/ FeederCancel
    \/ FeederClose
    \/ \E w \in WorkerIds : WorkerExit(w)
    \/ \E w \in WorkerIds : WorkerCheck(w)
    \/ \E w \in WorkerIds : FnReturn(w)
    \/ \E w \in WorkerIds : WorkerSend(w)
    \/ \E w \in WorkerIds : WorkerDrop(w)
    \/ CloserClose

Spec == Init /\ [][Next]_vars

\* ---- fairness: the Go scheduler runs every goroutine that can take a step,
\* and every fn invocation returns; cancellation is never forced ----

MainStep == RunEmpty \/ RunStart \/ SpawnWorker \/ SpawnFeeder \/ SpawnCloser
               \/ Collect \/ Return

FeederStep == (\E w \in WorkerIds : Handoff(w)) \/ FeederCancel \/ FeederClose

WorkerStep(w) == WorkerExit(w) \/ WorkerCheck(w) \/ FnReturn(w)
                    \/ WorkerSend(w) \/ WorkerDrop(w)

Fairness ==
    /\ WF_vars(MainStep)
    /\ WF_vars(FeederStep)
    /\ WF_vars(CloserClose)
    /\ \A w \in WorkerIds : WF_vars(WorkerStep(w))

FairSpec == Init /\ [][Next]_vars /\ Fairness

\* ---- what the properties are stated with ----

Returned == mpc = "returned"

\* the slice Run returns, values only
OutVals == [k \in DOMAIN out |-> out[k].val]

\* fn applied to every input, in input order
Expected == [i \in DOMAIN inputs |-> Fn(inputs[i])]

Count(seq, v) == Cardinality({ k \in DOMAIN seq : seq[k] = v })

Range(seq) == { seq[k] : k \in DOMAIN seq }

SameBag(s, t) ==
    /\ Len(s) = Len(t)
    /\ \A v \in Range(s) \cup Range(t) : Count(s, v) = Count(t, v)

\* the positions whose output is in the slice Run builds
OutPositions == { out[k].pos : k \in DOMAIN out }

\* ---- properties ----

\* C1: when the scope is never cancelled, Run on N > 0 inputs returns exactly
\* N outputs, and as a multiset they are fn of every input.
C1_AllOutputs ==
    (Returned /\ ~ctxDone /\ N > 0) =>
        /\ Len(out) = N
        /\ SameBag(OutVals, Expected)

\* C1 happens: an uncancelled run of two or more inputs returned them out of
\* input order.
C1_Witness ==
    /\ Returned /\ ~ctxDone /\ N >= 2
    /\ Len(out) = N
    /\ out[1].pos # 1

\* C2: fn is invoked at most once per input position, every position is
\* handed to at most one worker and held by at most one worker at a time;
\* without cancellation every position is invoked exactly once.
C2_AtMostOnce ==
    /\ \A p \in Positions : invoked[p] <= 1 /\ handed[p] <= 1
    /\ \A w1, w2 \in WorkerIds :
          (w1 # w2 /\ winput[w1] # 0) => winput[w1] # winput[w2]
    /\ (Returned /\ ~ctxDone) => \A p \in 1..N : invoked[p] = 1

\* C2 happens: a cancelled run returned with one position invoked and
\* another handed to a worker but never invoked.
C2_Witness ==
    /\ Returned /\ ctxDone
    /\ \E p, q \in 1..N : invoked[p] = 1 /\ handed[q] = 1 /\ invoked[q] = 0

\* C3: under fair scheduling, with every fn invocation returning, Run
\* eventually returns, whatever the worker count, the inputs and the moment
\* of cancellation.
C3_RunReturns == <>Returned

\* C3 happens: a pool built with a clamped count, cancelled while work
\* remained, has returned.
C3_Witness ==
    /\ Returned /\ ctxDone
    /\ requested < 1
    /\ N >= 2 /\ Len(out) >= 1 /\ Len(out) < N

C5_CompletedCollected ==
    Returned => (inFlightAtCancel \cap completed) \subseteq OutPositions

C7_NoHandoffAfterCancel == [][ctxDone => handed' = handed]_vars

\* C8: Run on an empty input slice goes straight from the call to its
\* return, returns nothing, starts no worker, feeder or closer and never
\* invokes fn, whatever the worker count and the state of the scope.
C8_EmptyRun ==
    N = 0 =>
        /\ mpc \in {"call", "returned"}
        /\ spawned = 0
        /\ \A w \in WorkerIds : wpc[w] = "none"
        /\ fpc = "none" /\ cpc = "none"
        /\ \A p \in Positions : invoked[p] = 0
        /\ out = << >>

\* C8 happens: Run on an empty slice has returned, the scope cancelled and
\* the pool built with more than one worker.
C8_Witness == N = 0 /\ Returned /\ ctxDone /\ workers > 1

\* C9: New keeps a positive worker count and turns any other into one; a
\* pool built with a non-positive count that returns uncancelled has
\* processed every input.
C9_Clamp ==
    /\ requested >= 1 => workers = requested
    /\ requested <= 0 => workers = 1
    /\ (requested <= 0 /\ Returned /\ ~ctxDone) =>
          /\ Len(out) = N
          /\ \A p \in 1..N : invoked[p] = 1 /\ p \in OutPositions

\* C9 happens: a pool built with a non-positive count has returned all of
\* two or more outputs.
C9_Witness ==
    requested <= 0 /\ Returned /\ ~ctxDone /\ N >= 2 /\ Len(out) = N

\* C10: at most p.workers fn invocations run at the same time.
C10_BoundedConcurrency == Cardinality(Running) <= workers

\* C10 happens: a pool of two or more workers has all of them inside fn.
C10_Witness == workers >= 2 /\ Cardinality(Running) = workers

\* C11 as stated: in a run with fewer workers than inputs, two fn
\* invocations are eventually running at the same time (unless the scope is
\* cancelled).
C11_OverlapGuaranteed ==
    (N > 0 /\ workers < N) => <>(Cardinality(Running) >= 2 \/ ctxDone)

\* C11 as amended: two fn invocations run at the same time only in a pool of
\* two or more workers given two or more inputs; with one worker they never
\* overlap, whatever the number of inputs.
C11_OverlapNeedsTwoWorkers ==
    Cardinality(Running) >= 2 => (workers >= 2 /\ N >= 2)

\* C11 happens: in an uncancelled run with fewer workers than inputs two
\* invocations are running at the same time.
C11_Witness == ~ctxDone /\ workers < N /\ Cardinality(Running) >= 2

\* every worker goroutine that was started has returned
WorkersExited == \A w \in WorkerIds : wpc[w] \in {"none", "done"}

\* the workers the start-up loop has started
Started == 1..spawned

C22_ReturnAfterWorkers ==
    [][Returned' => (WorkersExited' /\ Running' = {} /\ wg' = 0
                       /\ invoked' = invoked)]_vars

\* C22 happens: Run returned from a cancelled call in which two workers had
\* been started and an invocation had run.
C22_Witness ==
    /\ Returned /\ ctxDone /\ spawned >= 2 /\ completed # {}
    /\ \A w \in Started : wpc[w] = "done"

\* C23: the slice Run builds never holds more than len(inputs) outputs, every
\* output in it is fn of the input at its position, that position was
\* invoked exactly once and has completed, and no position appears twice.
C23_SubMultiset ==
    /\ Len(out) <= N
    /\ \A k \in DOMAIN out :
          /\ out[k].pos \in 1..N
          /\ out[k].pos \in completed
          /\ invoked[out[k].pos] = 1
          /\ out[k].val = Fn(inputs[out[k].pos])
    /\ \A j, k \in DOMAIN out : (j # k) => out[j].pos # out[k].pos

\* C23 happens: a cancelled run of three inputs returned some outputs but
\* not all.
C23_Witness ==
    Returned /\ ctxDone /\ N >= 3 /\ Len(out) >= 1 /\ Len(out) < N

\* C26: the positions handed to workers are exactly those before the
\* feeder's next position, each handed once; what a worker holds and what is
\* queued or collected lies in that prefix.
C26_HandedPrefix ==
    /\ \A p \in Positions : handed[p] = IF p < fi THEN 1 ELSE 0
    /\ \A w \in WorkerIds : winput[w] < fi
    /\ \A k \in DOMAIN results : results[k].pos < fi
    /\ \A k \in DOMAIN out : out[k].pos < fi

\* C26 happens: the feeder ended on cancellation with a non-empty prefix
\* handed out and a non-empty suffix never submitted.
C26_Witness ==
    /\ ctxDone /\ fpc = "done" /\ fi > 1 /\ fi <= N
    /\ handed[1] = 1 /\ handed[N] = 0

\* C27: when ctx is cancelled before any fn invocation has started, as it is
\* when Run is called with a cancelled ctx, fn is never invoked and nothing
\* is queued or collected, whatever the feeder hands out.
C27_CancelledAtCall ==
    (ctxDone /\ startedAtCancel = 0) =>
        /\ \A p \in Positions : invoked[p] = 0
        /\ completed = {}
        /\ results = << >>
        /\ out = << >>

\* C27 happens: Run returned zero outputs for non-empty inputs, ctx was
\* cancelled before anything started, and the feeder had still handed the
\* first two inputs to workers.
C27_Witness ==
    /\ Returned /\ N >= 2 /\ ctxDone /\ startedAtCancel = 0 /\ collectedAtCancel = 0
    /\ handed[1] = 1 /\ handed[2] = 1 /\ out = << >>

\* C28: results is closed exactly when the closer has ended, which it does
\* once; at that time the start-up loop is over, the wait group is at zero,
\* every worker has exited and none is at its send.
C28_ResultsClosedAfterWorkers ==
    /\ resultsClosed <=> (cpc = "done")
    /\ resultsClosed =>
          /\ spawned = workers
          /\ wg = 0
          /\ WorkersExited
          /\ \A w \in WorkerIds : wpc[w] # "send"

\* C28 happens: results is closed after a cancellation in which a worker
\* dropped a completed output.
C28_Witness ==
    /\ resultsClosed /\ ctxDone
    /\ \E p \in completed :
          /\ p \notin OutPositions
          /\ \A k \in DOMAIN results : results[k].pos # p

\* every goroutine Run started has ended, and Run has returned
Terminated ==
    /\ Returned
    /\ N > 0 => /\ fpc = "done"
                /\ cpc = "done"
                /\ spawned = workers
                /\ \A w \in Started : wpc[w] = "done"

\* C29: in every execution Run returns and every worker, the feeder and the
\* closer end, and stay so.
C29_AllGoroutinesEnd == <>[]Terminated

\* C29 happens: Run has returned after a cancellation, the feeder ended with
\* inputs left, and the closer and all workers have ended.
C29_Witness == Terminated /\ ctxDone /\ fi <= N /\ N > 0 /\ handed[1] = 0

(***************************************************************************)
(* internal/checker: Check and its three branches.                         *)
(*                                                                         *)
(* A network operation is two steps, its start and its end.  An operation  *)
(* that takes ctx fails at once, without touching the network, when ctx is *)
(* already done, and can end in success only while ctx is not done; it can *)
(* end in failure at any time.  The secondary TLS dial of checkTCP takes   *)
(* no ctx: only its own dialer timeout bounds it.                          *)
(***************************************************************************)

\* ---- bound of the checker model ----
MaxClock == 2        \* the wall clock runs from 0 to MaxClock

\* Pool.Run is not called
PoolIdle ==
    /\ requested = 1 /\ workers = 1 /\ inputs = << >> /\ ctxDone = FALSE
    /\ mpc = "call" /\ spawned = 0
    /\ wpc = [w \in WorkerIds |-> "none"]
    /\ winput = [w \in WorkerIds |-> 0]
    /\ wout = [w \in WorkerIds |-> 0]
    /\ fpc = "none" /\ fi = 1 /\ jobsClosed = FALSE
    /\ cpc = "none" /\ wg = 0
    /\ results = << >> /\ resultsClosed = FALSE /\ out = << >>
    /\ invoked = [p \in Positions |-> 0]
    /\ handed = [p \in Positions |-> 0]
    /\ completed = {}
    /\ startedAtCancel = 0 - 1 /\ collectedAtCancel = 0 - 1
    /\ inFlightAtCancel = {}

poolOnly == << requested, workers, inputs, ctxDone, mpc, spawned, wpc, winput, wout,
              fpc, fi, jobsClosed, cpc, wg, results, resultsClosed, out,
              invoked, handed, completed, startedAtCancel, collectedAtCancel,
              inFlightAtCancel >>

\* everything that is not state of a Check call
poolAll == << poolOnly, cliVars, cntVars >>

\* ---- strings: sequences of one-character strings ----

\* unicode.ToLower on the letters the samples use
LowerChar(c) ==
    CASE c = "H" -> "h" [] c = "T" -> "t" [] c = "P" -> "p" [] c = "C" -> "c"
      [] c = "D" -> "d" [] c = "N" -> "n" [] c = "S" -> "s" [] c = "F" -> "f"
      [] c = "A" -> "a" [] OTHER -> c

\* strings.ToLower
ToLower(str) == [i \in DOMAIN str |-> LowerChar(str[i])]

IsSpace(c) == c \in {" ", "\t", "\n"}

RECURSIVE TrimLeft(_)
TrimLeft(str) ==
    IF str # << >> /\ IsSpace(Head(str)) THEN TrimLeft(Tail(str)) ELSE str

RECURSIVE TrimRight(_)
TrimRight(str) ==
    IF str # << >> /\ IsSpace(str[Len(str)])
      THEN TrimRight(SubSeq(str, 1, Len(str) - 1))
      ELSE str

\* strings.TrimSpace
TrimSpace(str) == TrimRight(TrimLeft(str))

\* variant of Kind: the type is compared as given
KindRaw(type) == type

\* the switch expression of Check: strings.ToLower(strings.TrimSpace(target.Type))
Kind(type) == ToLower(TrimSpace(type))

HTTP == << "h", "t", "t", "p" >>
TCP == << "t", "c", "p" >>
DNS == << "d", "n", "s" >>

\* the values of target.Type the model draws from
TypeSamples ==
    { HTTP, TCP, DNS,
      << "H", "T", "T", "P" >>, << " ", "t", "c", "p", " " >>, << "D", "n", "s" >>,
      << "f", "t", "p" >>, << >>, << "h", "t", "t", "p", "s" >>, << " " >> }

\* ---- int64 and time.Duration: four 16-bit limbs, least significant first,
\* two's complement; arithmetic is modulo 2^64 as in Go ----

LimbBase == 256 * 256

Limb(x, i) == IF i \in DOMAIN x THEN x[i] ELSE 0

IsNegative(x) == x[4] >= LimbBase \div 2
IsZero(x) == \A i \in DOMAIN x : x[i] = 0
IsPositive(x) == ~IsNegative(x) /\ ~IsZero(x)

\* a small non-negative int as an int64
FromInt(n) == << n % LimbBase, n \div LimbBase, 0, 0 >>

\* time.Millisecond, in nanoseconds
MillisecondNs == 1000000

\* limbs i..n of x * time.Millisecond, carry coming in
RECURSIVE MulFrom(_, _, _, _)
MulFrom(x, i, carry, n) ==
    IF i > n THEN << >>
    ELSE LET t == Limb(x, i) * (MillisecondNs % LimbBase)
                    + Limb(x, i - 1) * (MillisecondNs \div LimbBase) + carry
         IN  << t % LimbBase >> \o MulFrom(x, i + 1, t \div LimbBase, n)

\* time.Duration(ms) * time.Millisecond: the int64 product, wrapping
MulMillisecond(ms) == MulFrom(ms, 1, 0, 4)

\* the same product of a non-negative ms without wrapping (six limbs)
ExactMillis(ms) == MulFrom(ms, 1, 0, 6)

\* 5 * time.Second = 5,000,000,000 ns
FiveSeconds == << 61952, 10757, 1, 0 >>

\* timeout := time.Duration(target.Timeout) * time.Millisecond;
\* if timeout <= 0 { timeout = 5 * time.Second }
EffectiveTimeout(ms) ==
    LET t == MulMillisecond(ms)
    IN  IF IsNegative(t) \/ IsZero(t) THEN FiveSeconds ELSE t

\* the values of target.Timeout the model draws from: -1, 0 (absent), 1,
\* 200, 5000, 9223372036854, 9223372036855 and 18446744073710
TimeoutSamples ==
    { << 65535, 65535, 65535, 65535 >>, FromInt(0), FromInt(1), FromInt(200),
      FromInt(5000), << 23286, 31696, 2147, 0 >>, << 23287, 31696, 2147, 0 >>,
      << 46574, 63392, 4294, 0 >> }

\* ---- targets and the network ----

Ports == {80, 443, 8443}

\* target.Port == 443 || target.Port == 8443
IsTLSPort(port) == port = 443 \/ port = 8443

\* status codes a response may carry
StatusCodes == {200, 301, 399, 400, 500}

\* variant of StatusOf: 400 counted as up
StatusOfInclusive(code) == IF code >= 200 /\ code <= 400 THEN "up" ELSE "down"

\* resp.StatusCode >= 200 && resp.StatusCode < 400
StatusOf(code) == IF code >= 200 /\ code < 400 THEN "up" ELSE "down"

\* checkCtx, derived from the caller's ctx with the timeout, is done
CtxDone == parentDone \/ deadlinePassed

CheckInit ==
    /\ PoolIdle /\ CliIdle /\ CntIdle
    /\ kpc = "call"
    /\ tType \in TypeSamples
    /\ tTimeout \in TimeoutSamples
    /\ tPort \in Ports
    /\ tURL \in {"malformed", "http", "https"}
    /\ parentDone \in BOOLEAN
    /\ deadlinePassed = FALSE
    /\ timeout = << 0, 0, 0, 0 >>
    /\ now = 0
    /\ start = 0
    /\ result = ZeroResult
    /\ resp = NoResponse
    /\ netOp = "none"
    /\ netStarted = << >>
    /\ conns = {}

\* ---- the environment ----

\* time passes
Tick ==
    /\ kpc \notin {"idle", "done"}
    /\ now < MaxClock
    /\ now' = now + 1
    /\ UNCHANGED << poolAll, kpc, tType, tTimeout, tPort, tURL, parentDone,
                    deadlinePassed, timeout, start, result, resp, netOp, netStarted,
                    conns >>

\* the caller cancels its ctx
ParentCancel ==
    /\ kpc \notin {"idle", "done"}
    /\ ~parentDone
    /\ parentDone' = TRUE
    /\ UNCHANGED << poolAll, kpc, tType, tTimeout, tPort, tURL, deadlinePassed,
                    timeout, now, start, result, resp, netOp, netStarted, conns >>

\* the deadline of checkCtx passes (some time after WithTimeout)
Expire ==
    /\ kpc \notin {"idle", "call", "done"}
    /\ ~deadlinePassed
    /\ now > start
    /\ deadlinePassed' = TRUE
    /\ UNCHANGED << poolAll, kpc, tType, tTimeout, tPort, tURL, parentDone,
                    timeout, now, start, result, resp, netOp, netStarted, conns >>

\* ---- Check ----

targetVars == << tType, tTimeout, tPort, tURL >>
ctxVars == << parentDone, deadlinePassed, now >>

\* the Result a branch starts from
NewResult(type, tgt) == [ZeroResult EXCEPT !.Type = type, !.Target = tgt]

\* variant of Down: a failed attempt reported as error
DownAsError(r, why) == [r EXCEPT !.Latency = now - start, !.Status = "error",
                                 !.Detail = << "error", why >>]

\* the Result of a failed attempt: latency measured, status down, error text
Down(r, why) == [r EXCEPT !.Latency = now - start, !.Status = "down",
                          !.Detail = << "error", why >>]

\* Check up to the switch, and the first statements of the branch taken;
\* the default case returns at once
CheckBegin ==
    /\ kpc = "call"
    /\ timeout' = EffectiveTimeout(tTimeout)
    /\ start' = now
    /\ LET k == Kind(tType)
       IN  CASE k = HTTP -> /\ kpc' = "http_build"
                            /\ result' = NewResult(HTTP, "url")
             [] k = TCP  -> /\ kpc' = "tcp_dial"
                            /\ result' = NewResult(TCP, "host:port")
             [] k = DNS  -> /\ kpc' = "dns_lookup"
                            /\ result' = NewResult(DNS, "host")
             [] OTHER    -> /\ kpc' = "done"
                            /\ result' = [ZeroResult EXCEPT
                                             !.Type = tType, !.Target = "url",
                                             !.Status = "error",
                                             !.Detail = << "unknown check type", tType >>]
    /\ UNCHANGED << poolAll, targetVars, ctxVars, resp, netOp, netStarted, conns >>

\* ---- checkHTTP ----

\* http.NewRequestWithContext: fails on a malformed URL
HttpBuild ==
    /\ kpc = "http_build"
    /\ IF tURL = "malformed"
         THEN /\ result' = [result EXCEPT !.Status = "error",
                                          !.Detail = << "build request" >>,
                                          !.Latency = now - start]
              /\ kpc' = "done"
         ELSE /\ kpc' = "http_do"
              /\ UNCHANGED result
    /\ UNCHANGED << poolAll, targetVars, ctxVars, timeout, start, resp, netOp,
                    netStarted, conns >>

\* client.Do(req) starts the request
HttpDo ==
    /\ kpc = "http_do"
    /\ IF CtxDone
         THEN /\ result' = Down(result, "context")
              /\ kpc' = "done"
              /\ UNCHANGED << netOp, netStarted >>
         ELSE /\ netOp' = "http"
              /\ netStarted' = Append(netStarted, "http")
              /\ kpc' = "http_wait"
              /\ UNCHANGED result
    /\ UNCHANGED << poolAll, targetVars, ctxVars, timeout, start, resp, conns >>

\* variant of HttpFail: the request is sent again after a failure
HttpFailRetry ==
    /\ kpc = "http_wait"
    /\ netOp' = "none"
    /\ kpc' = "http_do"
    /\ UNCHANGED << poolAll, targetVars, ctxVars, timeout, start, result, resp,
                    netStarted, conns >>

\* client.Do returns an error: refused, reset, timed out, cancelled
HttpFail ==
    /\ kpc = "http_wait"
    /\ netOp' = "none"
    /\ result' = Down(result, "transport")
    /\ kpc' = "done"
    /\ UNCHANGED << poolAll, targetVars, ctxVars, timeout, start, resp, netStarted,
                    conns >>

\* client.Do returns the first response (redirects are not followed);
\* result.Latency = time.Since(start)
HttpResponse(code, certs) ==
    /\ kpc = "http_wait"
    /\ ~CtxDone
    /\ netOp' = "none"
    /\ resp' = [StatusCode |-> code,
                TLS |-> IF tURL = "https" THEN "state" ELSE "nil",
                PeerCertificates |-> IF tURL = "https" THEN certs ELSE 0]
    /\ conns' = conns \cup {"body"}
    /\ result' = [result EXCEPT !.Latency = now - start]
    /\ kpc' = "http_classify"
    /\ UNCHANGED << poolAll, targetVars, ctxVars, timeout, start, netStarted >>

\* status from the status code; detail "HTTP <code>"
HttpClassify ==
    /\ kpc = "http_classify"
    /\ result' = [result EXCEPT !.Status = StatusOf(resp.StatusCode),
                                !.Detail = << "HTTP", resp.StatusCode >>]
    /\ kpc' = "http_tls"
    /\ UNCHANGED << poolAll, targetVars, ctxVars, timeout, start, resp, netOp,
                    netStarted, conns >>

\* variant of HasPeerCert: the certificate list is not looked at
HasPeerCertUnchecked(r) == r.TLS # "nil"

\* resp.TLS != nil && len(resp.TLS.PeerCertificates) > 0
HasPeerCert(r) == r.TLS # "nil" /\ r.PeerCertificates > 0

\* the TLS summary of the leaf certificate, when there is one; return, and
\* the deferred resp.Body.Close() runs
HttpTLS ==
    /\ kpc = "http_tls"
    /\ result' = IF HasPeerCert(resp) THEN [result EXCEPT !.TLS = "info"] ELSE result
    /\ conns' = conns \ {"body"}
    /\ kpc' = "done"
    /\ UNCHANGED << poolAll, targetVars, ctxVars, timeout, start, resp, netOp,
                    netStarted >>

\* ---- checkTCP ----

\* dialer.DialContext(ctx, "tcp", addr) starts
TcpDial ==
    /\ kpc = "tcp_dial"
    /\ IF CtxDone
         THEN /\ result' = Down(result, "context")
              /\ kpc' = "done"
              /\ UNCHANGED << netOp, netStarted >>
         ELSE /\ netOp' = "dial"
              /\ netStarted' = Append(netStarted, "dial")
              /\ kpc' = "tcp_wait"
              /\ UNCHANGED result
    /\ UNCHANGED << poolAll, targetVars, ctxVars, timeout, start, resp, conns >>

\* the dial fails
TcpDialFail ==
    /\ kpc = "tcp_wait"
    /\ netOp' = "none"
    /\ result' = Down(result, "dial")
    /\ kpc' = "done"
    /\ UNCHANGED << poolAll, targetVars, ctxVars, timeout, start, resp, netStarted,
                    conns >>

\* the dial succeeds; result.Latency = time.Since(start)
TcpDialOk ==
    /\ kpc = "tcp_wait"
    /\ ~CtxDone
    /\ netOp' = "none"
    /\ conns' = conns \cup {"primary"}
    /\ result' = [result EXCEPT !.Latency = now - start]
    /\ kpc' = "tcp_close"
    /\ UNCHANGED << poolAll, targetVars, ctxVars, timeout, start, resp, netStarted >>

\* variant of TcpClose: the connection is left open (its Close deferred or
\* forgotten)
TcpCloseMissing ==
    /\ kpc = "tcp_close"
    /\ result' = [result EXCEPT !.Status = "up",
                                !.Detail = << "connection successful" >>]
    /\ kpc' = IF IsTLSPort(tPort) THEN "tcp_tls" ELSE "done"
    /\ UNCHANGED << poolAll, targetVars, ctxVars, timeout, start, resp, netOp,
                    netStarted, conns >>

\* conn.Close(); status up; then the port decides about the TLS inspection
TcpClose ==
    /\ kpc = "tcp_close"
    /\ conns' = conns \ {"primary"}
    /\ result' = [result EXCEPT !.Status = "up",
                                !.Detail = << "connection successful" >>]
    /\ kpc' = IF IsTLSPort(tPort) THEN "tcp_tls" ELSE "done"
    /\ UNCHANGED << poolAll, targetVars, ctxVars, timeout, start, resp, netOp,
                    netStarted >>

\* tls.DialWithDialer(&net.Dialer{Timeout: 3s}, ...) starts; it takes no ctx
TlsDial ==
    /\ kpc = "tcp_tls"
    /\ netOp' = "tls"
    /\ netStarted' = Append(netStarted, "tls")
    /\ kpc' = "tls_wait"
    /\ UNCHANGED << poolAll, targetVars, ctxVars, timeout, start, result, resp, conns >>

\* variant of TlsDialFail: the failure of the TLS dial is reported
TlsDialFailEscalates ==
    /\ kpc = "tls_wait"
    /\ netOp' = "none"
    /\ result' = [result EXCEPT !.Status = "error", !.Detail = << "error", "tls" >>]
    /\ kpc' = "done"
    /\ UNCHANGED << poolAll, targetVars, ctxVars, timeout, start, resp,
                    netStarted, conns >>

\* the TLS dial fails (or its three seconds run out): the error is dropped
TlsDialFail ==
    /\ kpc = "tls_wait"
    /\ netOp' = "none"
    /\ kpc' = "done"
    /\ UNCHANGED << poolAll, targetVars, ctxVars, timeout, start, result, resp,
                    netStarted, conns >>

\* the TLS dial succeeds: state := tlsConn.ConnectionState()
TlsDialOk(certs) ==
    /\ kpc = "tls_wait"
    /\ netOp' = "none"
    /\ conns' = conns \cup {"tls"}
    /\ resp' = [StatusCode |-> 0, TLS |-> "state", PeerCertificates |-> certs]
    /\ kpc' = "tls_state"
    /\ UNCHANGED << poolAll, targetVars, ctxVars, timeout, start, result, netStarted >>

\* the TLS summary of the leaf certificate, when there is one; return, and
\* the deferred tlsConn.Close() runs
TlsState ==
    /\ kpc = "tls_state"
    /\ result' = IF resp.PeerCertificates > 0
                   THEN [result EXCEPT !.TLS = "info"] ELSE result
    /\ conns' = conns \ {"tls"}
    /\ kpc' = "done"
    /\ UNCHANGED << poolAll, targetVars, ctxVars, timeout, start, resp, netOp,
                    netStarted >>

\* ---- checkDNS ----

\* resolver.LookupHost(ctx, host) starts
DnsLookup ==
    /\ kpc = "dns_lookup"
    /\ IF CtxDone
         THEN /\ result' = Down(result, "context")
              /\ kpc' = "done"
              /\ UNCHANGED << netOp, netStarted >>
         ELSE /\ netOp' = "dns"
              /\ netStarted' = Append(netStarted, "dns")
              /\ kpc' = "dns_wait"
              /\ UNCHANGED result
    /\ UNCHANGED << poolAll, targetVars, ctxVars, timeout, start, resp, conns >>

\* the lookup fails
DnsFail ==
    /\ kpc = "dns_wait"
    /\ netOp' = "none"
    /\ result' = Down(result, "lookup")
    /\ kpc' = "done"
    /\ UNCHANGED << poolAll, targetVars, ctxVars, timeout, start, resp, netStarted,
                    conns >>

\* the lookup succeeds
DnsOk ==
    /\ kpc = "dns_wait"
    /\ ~CtxDone
    /\ netOp' = "none"
    /\ result' = [result EXCEPT !.Latency = now - start, !.Status = "up",
                                !.Detail = << "resolved to", "addrs" >>]
    /\ kpc' = "done"
    /\ UNCHANGED << poolAll, targetVars, ctxVars, timeout, start, resp, netStarted,
                    conns >>

CheckNext ==
    \/ Tick
    \/ ParentCancel
    \/ Expire
    \/ CheckBegin
    \/ HttpBuild
    \/ HttpDo
    \/ HttpFail
    \/ \E code \in StatusCodes, certs \in 0..1 : HttpResponse(code, certs)
    \/ HttpClassify
    \/ HttpTLS
    \/ TcpDial
    \/ TcpDialFail
    \/ TcpDialOk
    \/ TcpClose
    \/ TlsDial
    \/ TlsDialFail
    \/ \E certs \in 0..1 : TlsDialOk(certs)
    \/ TlsState
    \/ DnsLookup
    \/ DnsFail
    \/ DnsOk

CheckSpec == CheckInit /\ [][CheckNext]_vars

\* ---- properties of Check ----

CheckDone == kpc = "done"

\* the sampled spellings that name one of the three kinds when case and
\* surrounding white space are ignored
RecognizedSpellings ==
    { HTTP, TCP, DNS,
      << "H", "T", "T", "P" >>, << " ", "t", "c", "p", " " >>, << "D", "n", "s" >> }

\* a Result of the default case: error, the detail quoting the type as
\* given, no latency, no TLS, and nothing was sent to the network
IsUnknownKindResult ==
    /\ result.Status = "error"
    /\ result.Detail = << "unknown check type", tType >>
    /\ result.Latency = 0 /\ result.TLS = "nil"
    /\ netStarted = << >> /\ netOp = "none" /\ conns = {}

C13_HttpStatus ==
    (result.Type = HTTP /\ resp # NoResponse /\ kpc \in {"http_tls", "done"}) =>
        /\ result.Status = "up" <=> (resp.StatusCode >= 200 /\ resp.StatusCode <= 399)
        /\ result.Status \in {"up", "down"}
        /\ result.Detail = << "HTTP", resp.StatusCode >>

\* C13 happens: an HTTPS check returned for a 400 response with TLS
\* information attached.
C13_Witness ==
    /\ CheckDone /\ result.Type = HTTP /\ resp # NoResponse
    /\ resp.StatusCode = 400 /\ result.TLS = "info" /\ result.Status = "down"

\* C14: a returned Result has status error only for an unknown kind or a
\* request that could not be built, in both cases with nothing sent to the
\* network; every failed attempt (HTTP transport, dial, lookup, cancelled
\* ctx) gives status down.
C14_ErrorOnlyWithoutAttempt ==
    CheckDone =>
        /\ result.Status = "error" =>
              /\ netStarted = << >>
              /\ \/ (result.Detail = << "unknown check type", tType >>
                       /\ result.Type \notin {HTTP, TCP, DNS})
                 \/ (result.Detail = << "build request" >>
                       /\ result.Type = HTTP /\ tURL = "malformed")
        /\ (result.Detail # << >> /\ result.Detail[1] = "error") =>
              result.Status = "down"
        /\ (netStarted # << >> /\ result.Status # "up") => result.Status = "down"

\* C14 happens: a dial was attempted, failed, and Check returned down.
C14_Witness ==
    /\ CheckDone /\ netStarted = << "dial" >>
    /\ result.Status = "down" /\ result.Detail = << "error", "dial" >>

\* C15: the TLS enrichment steps (the certificate extraction of checkHTTP,
\* the secondary TLS dial of checkTCP and its outcome) leave status, detail
\* and latency of the Result as they were.
C15_EnrichmentFrame ==
    [][(kpc \in {"http_tls", "tcp_tls", "tls_wait", "tls_state"}) =>
          (result'.Status = result.Status /\ result'.Detail = result.Detail
             /\ result'.Latency = result.Latency /\ result'.Type = result.Type)]_vars

\* C15 happens: a TCP check returned with TLS information, and time passed
\* during the enrichment that the latency does not count.
C15_Witness ==
    /\ CheckDone /\ result.Type = TCP /\ result.TLS = "info"
    /\ result.Latency < now - start

\* C16: a Result carries TLS information only from an HTTPS check whose
\* response had a peer certificate, or from a TCP check that is up, on port
\* 443 or 8443, whose secondary TLS dial returned a peer certificate.
C16_TLSOnlyWhenInspectable ==
    result.TLS # "nil" =>
        /\ resp # NoResponse /\ resp.PeerCertificates > 0
        /\ \/ (result.Type = HTTP /\ tURL = "https"
                 /\ result.Status \in {"up", "down"} /\ netStarted = << "http" >>)
           \/ (result.Type = TCP /\ tPort \in {443, 8443}
                 /\ result.Status = "up" /\ netStarted = << "dial", "tls" >>)

\* C16 happens: a TCP check on port 8443 returned with TLS information.
C16_Witness ==
    CheckDone /\ result.Type = TCP /\ tPort = 8443 /\ result.TLS = "info"

\* C17: the timeout of the call is timeout_ms milliseconds when timeout_ms
\* is positive and five seconds otherwise; the five seconds are not applied
\* to a positive timeout_ms (other than 5000 itself).
C17_EffectiveTimeout ==
    kpc \notin {"idle", "call"} =>
        /\ IsPositive(tTimeout) =>
              (~IsNegative(timeout) /\ ExactMillis(tTimeout) = timeout \o << 0, 0 >>)
        /\ ~IsPositive(tTimeout) => timeout = FiveSeconds
        /\ (IsPositive(tTimeout) /\ tTimeout # FromInt(5000)) => timeout # FiveSeconds

\* C18: once checkCtx is done (caller's cancellation or deadline) the call
\* starts no further network operation.
C18_NoOperationAfterDone == [][CtxDone => netStarted' = netStarted]_vars

\* C24: the primary connection is open only until the close that follows the
\* dial; the secondary TLS dial is started only in a TCP check on port 443 or
\* 8443, after the one successful dial, with the primary connection closed;
\* and when Check returns no connection of the call is open.
C24_TcpConnections ==
    /\ ("primary" \in conns) => (kpc = "tcp_close" /\ netStarted = << "dial" >>)
    /\ (kpc \in {"tcp_tls", "tls_wait", "tls_state"} \/ netOp = "tls") =>
          /\ "primary" \notin conns
          /\ result.Type = TCP /\ result.Status = "up"
          /\ tPort \in {443, 8443}
    /\ (\E k \in DOMAIN netStarted : netStarted[k] = "tls") =>
          /\ netStarted = << "dial", "tls" >>
          /\ result.Type = TCP /\ result.Status = "up"
          /\ tPort \in {443, 8443}
          /\ "primary" \notin conns
    /\ CheckDone => conns = {}

\* C24 happens: a TCP check on port 443 dialled, closed, tried the TLS dial,
\* which failed, and returned with nothing open.
C24_Witness ==
    /\ CheckDone /\ result.Type = TCP /\ tPort = 443
    /\ netStarted = << "dial", "tls" >> /\ result.TLS = "nil" /\ conns = {}

\* C25: a Check call starts at most one primary network operation, the one
\* of its branch, never a second one after a failure or a redirect; the only
\* other operation is at most one TLS dial, in the TCP branch after the dial.
C25_OneAttempt ==
    /\ netStarted \in { << >>, << "http" >>, << "dial" >>, << "dns" >>,
                        << "dial", "tls" >> }
    /\ netStarted # << >> =>
          netStarted[1] = (CASE result.Type = HTTP -> "http"
                             [] result.Type = TCP -> "dial"
                             [] result.Type = DNS -> "dns"
                             [] OTHER -> "none")

\* C25 happens: an HTTP check got a redirect, returned it without following
\* it, with one request made.
C25_Witness ==
    /\ CheckDone /\ result.Type = HTTP /\ netStarted = << "http" >>
    /\ resp.StatusCode = 301 /\ result.Detail = << "HTTP", 301 >>


\* ======================= cmd/hello-cli: main =======================

\* everything that is not state of hello-cli
cliFrame == << poolOnly, checkVars, cntVars >>

\* workerCount := *repeat; if workerCount > 4 { workerCount = 4 }
WorkerCount(r) == IF r > MaxCliWorkers THEN MaxCliWorkers ELSE r

\* Greeter.Greet for a fixed name and style: the sequence number is part of
\* the message when it is positive
Greet(sequence) == IF sequence > 0 THEN << "Hello", sequence >> ELSE << "Hello" >>

\* the zero value of a string
EmptyString == << >>

CliInit ==
    /\ PoolIdle /\ CheckIdle /\ CliIdle /\ CntIdle

\* flag parsing and validateRepeat passed; the channels are made
CliStart ==
    /\ hpc = "idle"
    /\ \E r \in 1..MaxRepeat : repeat' = r
    /\ hpc' = "spawn"
    /\ hi' = 0
    /\ UNCHANGED << cliFrame, hwpc, hwidx, hwmsg, hjobsClosed, hresults, ordered,
                    printed, generated, slotWrites, processed >>

\* for i := 0; i < workerCount; i++ { go func() { ... }() }
CliSpawn ==
    /\ hpc = "spawn"
    /\ hi < WorkerCount(repeat)
    /\ hwpc' = [hwpc EXCEPT ![hi + 1] = "range"]
    /\ hi' = IF hi + 1 = WorkerCount(repeat) THEN 0 ELSE hi + 1
    /\ hpc' = IF hi + 1 = WorkerCount(repeat) THEN "feed" ELSE "spawn"
    /\ UNCHANGED << cliFrame, repeat, hwidx, hwmsg, hjobsClosed, hresults, ordered,
                    printed, generated, slotWrites, processed >>

\* jobs <- i meets a worker's for idx := range jobs (jobs is unbuffered)
CliHandoff(w) ==
    /\ hpc = "feed"
    /\ hi < repeat
    /\ hwpc[w] = "range"
    /\ hwidx' = [hwidx EXCEPT ![w] = hi]
    /\ hwpc' = [hwpc EXCEPT ![w] = "work"]
    /\ processed' = [processed EXCEPT ![hi + 1] = @ + 1]
    /\ hi' = hi + 1
    /\ UNCHANGED << cliFrame, repeat, hpc, hwmsg, hjobsClosed, hresults, ordered,
                    printed, generated, slotWrites >>

\* close(jobs); orderedMessages := make([]string, *repeat)
CliCloseJobs ==
    /\ hpc = "feed"
    /\ hi = repeat
    /\ hjobsClosed' = TRUE
    /\ ordered' = [i \in 1..repeat |-> EmptyString]
    /\ hpc' = "collect"
    /\ hi' = 0
    /\ UNCHANGED << cliFrame, repeat, hwpc, hwidx, hwmsg, hresults, printed,
                    generated, slotWrites, processed >>

\* sequence := idx + 1; message := g.Greet(*name, sequence); counters.Inc(...)
CliWork(w) ==
    /\ hwpc[w] = "work"
    /\ hwmsg' = [hwmsg EXCEPT ![w] = Greet(hwidx[w] + 1)]
    /\ generated' = generated + 1
    /\ hwpc' = [hwpc EXCEPT ![w] = "send"]
    /\ UNCHANGED << cliFrame, repeat, hpc, hi, hwidx, hjobsClosed, hresults, ordered,
                    printed, slotWrites, processed >>

\* variant of CliSend: results is unbuffered, the send needs main receiving
CliSendUnbuffered(w) ==
    /\ hwpc[w] = "send"
    /\ hpc = "collect"
    /\ hresults = << >>
    /\ hresults' = Append(hresults, [index |-> hwidx[w], message |-> hwmsg[w]])
    /\ hwidx' = [hwidx EXCEPT ![w] = 0]
    /\ hwmsg' = [hwmsg EXCEPT ![w] = EmptyString]
    /\ hwpc' = [hwpc EXCEPT ![w] = "range"]
    /\ UNCHANGED << cliFrame, repeat, hpc, hi, hjobsClosed, ordered, printed,
                    generated, slotWrites, processed >>

\* results <- workerResult{index: idx, message: message} (capacity *repeat)
CliSend(w) ==
    /\ hwpc[w] = "send"
    /\ Len(hresults) < repeat
    /\ hresults' = Append(hresults, [index |-> hwidx[w], message |-> hwmsg[w]])
    /\ hwidx' = [hwidx EXCEPT ![w] = 0]
    /\ hwmsg' = [hwmsg EXCEPT ![w] = EmptyString]
    /\ hwpc' = [hwpc EXCEPT ![w] = "range"]
    /\ UNCHANGED << cliFrame, repeat, hpc, hi, hjobsClosed, ordered, printed,
                    generated, slotWrites, processed >>

\* range jobs ends once jobs is closed
CliWorkerExit(w) ==
    /\ hwpc[w] = "range"
    /\ hjobsClosed
    /\ hwpc' = [hwpc EXCEPT ![w] = "done"]
    /\ UNCHANGED << cliFrame, repeat, hpc, hi, hwidx, hwmsg, hjobsClosed, hresults,
                    ordered, printed, generated, slotWrites, processed >>

\* variant of CliCollect: the message is stored in the slot of the loop
\* variable, that is in arrival order
CliCollectByArrival ==
    /\ hpc = "collect"
    /\ hi < repeat
    /\ hresults # << >>
    /\ ordered' = [ordered EXCEPT ![hi + 1] = Head(hresults).message]
    /\ slotWrites' = [slotWrites EXCEPT ![hi + 1] = @ + 1]
    /\ hresults' = Tail(hresults)
    /\ hi' = hi + 1
    /\ UNCHANGED << cliFrame, repeat, hpc, hwpc, hwidx, hwmsg, hjobsClosed, printed,
                    generated, processed >>

\* result := <-results; orderedMessages[result.index] = result.message
CliCollect ==
    /\ hpc = "collect"
    /\ hi < repeat
    /\ hresults # << >>
    /\ ordered' = [ordered EXCEPT ![Head(hresults).index + 1] = Head(hresults).message]
    /\ slotWrites' = [slotWrites EXCEPT ![Head(hresults).index + 1] = @ + 1]
    /\ hresults' = Tail(hresults)
    /\ hi' = hi + 1
    /\ UNCHANGED << cliFrame, repeat, hpc, hwpc, hwidx, hwmsg, hjobsClosed, printed,
                    generated, processed >>

\* the collecting loop ends; printing starts
CliCollectDone ==
    /\ hpc = "collect"
    /\ hi = repeat
    /\ hpc' = "print"
    /\ hi' = 0
    /\ UNCHANGED << cliFrame, repeat, hwpc, hwidx, hwmsg, hjobsClosed, hresults,
                    ordered, printed, generated, slotWrites, processed >>

\* for i, message := range orderedMessages { print Index i+1 and the message }
CliPrint ==
    /\ hpc = "print"
    /\ hi < Len(ordered)
    /\ printed' = Append(printed, [Index |-> hi + 1, Message |-> ordered[hi + 1]])
    /\ hi' = hi + 1
    /\ UNCHANGED << cliFrame, repeat, hpc, hwpc, hwidx, hwmsg, hjobsClosed, hresults,
                    ordered, generated, slotWrites, processed >>

\* main returns
CliExit ==
    /\ hpc = "print"
    /\ hi = Len(ordered)
    /\ hpc' = "done"
    /\ UNCHANGED << cliFrame, repeat, hi, hwpc, hwidx, hwmsg, hjobsClosed, hresults,
                    ordered, printed, generated, slotWrites, processed >>

CliNext ==
    \/ CliStart
    \/ CliSpawn
    \/ \E w \in CliWorkerIds : CliHandoff(w)
    \/ CliCloseJobs
    \/ \E w \in CliWorkerIds : CliWork(w)
    \/ \E w \in CliWorkerIds : CliSend(w)
    \/ \E w \in CliWorkerIds : CliWorkerExit(w)
    \/ CliCollect
    \/ CliCollectDone
    \/ CliPrint
    \/ CliExit

CliSpec == CliInit /\ [][CliNext]_vars

\* C19: each index 0..repeat-1 is received by exactly one worker; a filled
\* slot of orderedMessages holds the message of its own index; when printing
\* starts every slot was written exactly once and none is empty; the lines
\* are printed in index order 1..repeat.
C19_OrderedOutput ==
    /\ \A i \in Slots : processed[i] <= 1 /\ slotWrites[i] <= 1
    /\ hpc \in {"collect", "print", "done"} =>
         /\ \A i \in 1..repeat : processed[i] = 1
         /\ \A i \in 1..repeat : ordered[i] # EmptyString => ordered[i] = Greet(i)
    /\ hpc \in {"print", "done"} =>
         /\ \A i \in 1..repeat : slotWrites[i] = 1 /\ ordered[i] # EmptyString
         /\ \A k \in DOMAIN printed : printed[k] = [Index |-> k, Message |-> Greet(k)]
    /\ hpc = "done" => Len(printed) = repeat

\* C19 witness: more greetings than workers, the results arrived out of index
\* order (the message of index 1 is first in the channel behind none of index
\* 0), and later everything is printed; the state is the one where the
\* out-of-order result has just been stored
C19_OutOfOrderStored ==
    /\ hpc = "collect"
    /\ repeat > MaxCliWorkers
    /\ ordered[1] = EmptyString
    /\ ordered[repeat] = Greet(repeat)

\* C19 witness: main has printed all lines of a run with more greetings than
\* workers
C19_Witness ==
    /\ hpc = "done"
    /\ repeat > MaxCliWorkers
    /\ Len(printed) = repeat
    /\ printed[repeat].Message = Greet(repeat)

\* main has returned and every worker it started has ended
CliFinished ==
    /\ hpc = "done"
    /\ \A w \in 1..WorkerCount(repeat) : hwpc[w] = "done"

\* the number of workers at one of the given positions
NumAt(positions) == Cardinality({ w \in CliWorkerIds : hwpc[w] \in positions })

\* the number of indices received by a worker, and of results received by main
NumHanded == Cardinality({ i \in Slots : processed[i] > 0 })
NumCollected == Cardinality({ i \in Slots : slotWrites[i] > 0 })

\* the steps main and the workers still have to take after the flags are
\* parsed: worker starts, sends on jobs, close(jobs), Greet calls, sends on
\* results, worker returns, receives from results, the end of the collecting
\* loop, printed lines, and the return of main
CliStepsLeft ==
      (WorkerCount(repeat) - NumAt({"range", "work", "send", "done"}))
    + (repeat - NumHanded)
    + (IF hjobsClosed THEN 0 ELSE 1)
    + (repeat - generated)
    + (repeat - Len(hresults) - NumCollected)
    + (WorkerCount(repeat) - NumAt({"done"}))
    + (repeat - NumCollected)
    + (IF hpc \in {"print", "done"} THEN 0 ELSE 1)
    + (repeat - Len(printed))
    + (IF hpc = "done" THEN 0 ELSE 1)

\* C30: the fan-out never deadlocks and always completes: a worker at its
\* send always finds room in results; as long as main or a worker has not
\* ended some step can be taken; every step brings the end nearer, so all
\* sends on jobs complete and jobs is closed; and main leaves the collecting
\* loop with exactly repeat results received and none left in the channel.
C30_FanOutCompletes ==
    /\ [](\A w \in CliWorkerIds : hwpc[w] = "send" => Len(hresults) < repeat)
    /\ [](~CliFinished => ENABLED CliNext)
    /\ [](hpc # "idle" => (CliStepsLeft >= 0 /\ (CliStepsLeft = 0 <=> CliFinished)))
    /\ [][(hpc # "idle") => (CliStepsLeft' = CliStepsLeft - 1)]_vars
    /\ [](hpc \in {"print", "done"} =>
            (hjobsClosed /\ hresults = << >> /\ generated = repeat
               /\ NumHanded = repeat /\ NumCollected = repeat))

\* C30 happens: a run with more greetings than workers has finished, all
\* four workers have ended and repeat greetings were generated.
C30_Witness ==
    /\ CliFinished /\ repeat > MaxCliWorkers /\ generated = repeat
    /\ hjobsClosed /\ hresults = << >>

\* ======================= internal/metrics: Counters =======================

\* everything that is not state of the Counters calls
cntFrame == << poolOnly, checkVars, cliVars >>

UnnamedCounter ==
    << "u", "n", "n", "a", "m", "e", "d", "_", "c", "o", "u", "n", "t", "e", "r" >>

\* (ch >= 'a' && ch <= 'z') || (ch >= '0' && ch <= '9') || ch == '_'
IsNameChar(ch) ==
    ch \in { "a", "b", "c", "d", "e", "f", "g", "h", "i", "j", "k", "l", "m",
             "n", "o", "p", "q", "r", "s", "t", "u", "v", "w", "x", "y", "z",
             "0", "1", "2", "3", "4", "5", "6", "7", "8", "9", "_" }

normalizeName(name) ==
    LET n == TrimSpace(ToLower(name))
    IN  IF n = << >>
          THEN UnnamedCounter
          ELSE [i \in DOMAIN n |-> IF IsNameChar(n[i]) THEN n[i] ELSE "_"]

\* the names passed to Inc and Get
NameSamples ==
    { << "h", "i", "t", "s" >>,
      << "H", "i", "t", "s" >>,
      << " ", "h", "i", "t", "s", " " >>,
      << "a", "-", "b" >>,
      << "A", ".", "b" >>,
      << " " >>,
      << >> }

CounterKeys == { normalizeName(n) : n \in NameSamples }

\* NewCounters: an empty map, every key reads as zero
NewCounters == [k \in CounterKeys |-> 0]

CntInit ==
    /\ PoolIdle /\ CheckIdle /\ CliIdle
    /\ incs \in 1..MaxIncs
    /\ cname \in NameSamples
    /\ values = NewCounters
    /\ muWriter = 0
    /\ muReaders = 0
    /\ gpc = [g \in IncIds |-> "none"]
    /\ gtmp = [g \in IncIds |-> 0]
    /\ tpc = "idle"
    /\ got = 0

\* the caller starts the goroutines, each calls Inc(name)
CntGo ==
    /\ tpc = "idle"
    /\ incs > 0
    /\ gpc' = [g \in IncIds |-> IF g <= incs THEN "start" ELSE "none"]
    /\ tpc' = "wait"
    /\ UNCHANGED << cntFrame, incs, cname, values, muWriter, muReaders, gtmp, got >>

\* variant of CntLock: the lock excludes nobody
CntLockNoExclusion(g) ==
    /\ gpc[g] = "start"
    /\ muWriter' = g
    /\ gpc' = [gpc EXCEPT ![g] = "locked"]
    /\ UNCHANGED << cntFrame, incs, cname, values, muReaders, gtmp, tpc, got >>

\* normalized := normalizeName(name); c.mu.Lock()
CntLock(g) ==
    /\ gpc[g] = "start"
    /\ muWriter = 0
    /\ muReaders = 0
    /\ muWriter' = g
    /\ gpc' = [gpc EXCEPT ![g] = "locked"]
    /\ UNCHANGED << cntFrame, incs, cname, values, muReaders, gtmp, tpc, got >>

\* c.values[normalized] += delta: the read
CntLoad(g) ==
    /\ gpc[g] = "locked"
    /\ gtmp' = [gtmp EXCEPT ![g] = values[normalizeName(cname)]]
    /\ gpc' = [gpc EXCEPT ![g] = "loaded"]
    /\ UNCHANGED << cntFrame, incs, cname, values, muWriter, muReaders, tpc, got >>

\* c.values[normalized] += delta: the write, delta is 1
CntStore(g) ==
    /\ gpc[g] = "loaded"
    /\ values' = [values EXCEPT ![normalizeName(cname)] = gtmp[g] + 1]
    /\ gtmp' = [gtmp EXCEPT ![g] = 0]
    /\ gpc' = [gpc EXCEPT ![g] = "stored"]
    /\ UNCHANGED << cntFrame, incs, cname, muWriter, muReaders, tpc, got >>

\* return c.values[normalized]; the deferred c.mu.Unlock()
CntUnlock(g) ==
    /\ gpc[g] = "stored"
    /\ muWriter' = 0
    /\ gpc' = [gpc EXCEPT ![g] = "done"]
    /\ UNCHANGED << cntFrame, incs, cname, values, muReaders, gtmp, tpc, got >>

\* wg.Wait() returns once every goroutine is done
CntWait ==
    /\ tpc = "wait"
    /\ \A g \in 1..incs : gpc[g] = "done"
    /\ tpc' = "get"
    /\ UNCHANGED << cntFrame, incs, cname, values, muWriter, muReaders, gpc, gtmp, got >>

\* Get: normalizeName(name); c.mu.RLock()
CntRLock ==
    /\ tpc = "get"
    /\ muWriter = 0
    /\ muReaders' = muReaders + 1
    /\ tpc' = "rlocked"
    /\ UNCHANGED << cntFrame, incs, cname, values, muWriter, gpc, gtmp, got >>

\* Get: return c.values[normalized]; the deferred c.mu.RUnlock()
CntGetReturn ==
    /\ tpc = "rlocked"
    /\ got' = values[normalizeName(cname)]
    /\ muReaders' = muReaders - 1
    /\ tpc' = "done"
    /\ UNCHANGED << cntFrame, incs, cname, values, muWriter, gpc, gtmp >>

CntNext ==
    \/ CntGo
    \/ \E g \in IncIds : CntLock(g)
    \/ \E g \in IncIds : CntLoad(g)
    \/ \E g \in IncIds : CntStore(g)
    \/ \E g \in IncIds : CntUnlock(g)
    \/ CntWait
    \/ CntRLock
    \/ CntGetReturn

CntSpec == CntInit /\ [][CntNext]_vars

\* C20: after K concurrent Inc calls on one counter name, in any
\* interleaving, Get for that name returns exactly K.
C20_NoLostIncrement == tpc = "done" => got = incs

\* C20 witness: several goroutines have incremented and Get has returned
C20_Witness == tpc = "done" /\ incs >= 2 /\ got = incs /\ cname # normalizeName(cname)

=============================================================================
